---- MODULE Spec2Model ----
(***************************************************************************)
(* Schema object model of pandera's pandas API: Column / Index / MultiIndex *)
(* / DataFrameSchema values, the DataFrameSchema constructor and the schema *)
(* transformation methods (add/remove/update/rename/select columns,         *)
(* set_index / reset_index).                                                *)
(*                                                                          *)
(* Python objects live in a heap: `heap` is the sequence of the             *)
(* DataFrameSchema objects of a session, an object's identity is its        *)
(* position.  Column objects carry an identity `oid` next to their value,   *)
(* so that two schemas can be seen to share one Column object.              *)
(* Python values of mixed type are encoded as strings or tagged records:    *)
(* None is "None", strict is "True" / "False" / "filter" / ..., a           *)
(* non-string name (the integer i) is "#i".                                 *)
(* `runs` holds the validate calls in flight, one per caller.               *)
(***************************************************************************)
EXTENDS Integers, Sequences, FiniteSets, TLC

VARIABLES heap, origin, last, runs

vars == <<heap, origin, last, runs>>

(***************************************************************************)
(* Bounds                                                                  *)
(***************************************************************************)
\* the session holds at most MaxObjs schema objects (one constructed, the
\* others returned by transforms)
MaxObjs == 3

(***************************************************************************)
(* Python values                                                           *)
(***************************************************************************)
None == "None"

OK == "ok"

NoOid == <<0, 0>>

\* no keyword arguments
NoKw == [f \in {} |-> f]

\* kwargs.get(f, default)
Get(kw, f, default) == IF f \in DOMAIN kw THEN kw[f] ELSE default

\* {**a, **b} on keyword records
KwMerge(a, b) ==
    [f \in (DOMAIN a) \cup (DOMAIN b) |-> IF f \in DOMAIN b THEN b[f] ELSE a[f]]

\* truth value of a string-or-None keyword value
Truthy(v) == v # None /\ v # ""

\* the integer key i of a mapping, as a key of the model
PosKey(i) == <<"#0", "#1", "#2", "#3", "#4", "#5">>[i + 1]

\* isinstance(n, str) or is_valid_multiindex_key(n); "#t" is a tuple that
\* holds a non-string
IsStr(n) == n \notin {None, "#0", "#1", "#2", "#3", "#4", "#5", "#t"}

(***************************************************************************)
(* Ordered dicts: a sequence of entries [key, col, oid] with distinct keys *)
(***************************************************************************)
KeySeq(d) == [i \in DOMAIN d |-> d[i].key]

KeysOf(d) == {d[i].key : i \in DOMAIN d}

Range(s) == {s[i] : i \in DOMAIN s}

HasKey(d, k) == k \in KeysOf(d)

Lookup(d, k) == d[CHOOSE i \in DOMAIN d : d[i].key = k]

\* d[k] = e: an existing key keeps its position, a new key goes last
DictSet(d, e) ==
    IF HasKey(d, e.key)
    THEN [i \in DOMAIN d |-> IF d[i].key = e.key THEN e ELSE d[i]]
    ELSE Append(d, e)

RECURSIVE DictUpdate(_, _)
\* {**d, **es}, also the dict built by a comprehension that yields es in order
DictUpdate(d, es) ==
    IF es = <<>> THEN d ELSE DictUpdate(DictSet(d, Head(es)), Tail(es))

DictOf(es) == DictUpdate(<<>>, es)

\* d.pop(k) for a key that is present
DictPop(d, k) == SelectSeq(d, LAMBDA e : e.key # k)

Entry(k, c) == [key |-> k, col |-> c, oid |-> NoOid]

\* copy.deepcopy of a column mapping: equal values, new Column objects
CopyColumns(d) == [i \in DOMAIN d |-> [d[i] EXCEPT !.oid = NoOid]]

\* list comprehension [x for x in xs if x not in d.keys()]
NotIn(xs, d) == SelectSeq(xs, LAMBDA x : ~HasKey(d, x))

(***************************************************************************)
(* Check, Column, Index                                                    *)
(***************************************************************************)
NoGroupby == [kind |-> "none"]

CallableGroupby == [kind |-> "callable"]

ListGroupby(ks) == [kind |-> "list", keys |-> ks]

Check(n, gb) == [name |-> n, groupby |-> gb]

\* Column.__init__: the stored attributes, or ValueError for a regex column
\* whose name is neither None, a string nor a tuple of strings
Column(kw) ==
    LET name  == Get(kw, "name", None)
        regex == Get(kw, "regex", FALSE)
    IN  IF name # None /\ ~IsStr(name) /\ regex
        THEN [exc |-> "ValueError"]
        ELSE [exc |-> OK,
              col |-> [dtype             |-> Get(kw, "dtype", None),
                       checks            |-> Get(kw, "checks", <<>>),
                       nullable          |-> Get(kw, "nullable", FALSE),
                       unique            |-> Get(kw, "unique", FALSE),
                       report_duplicates |-> Get(kw, "report_duplicates", "all"),
                       coerce            |-> Get(kw, "coerce", FALSE),
                       required          |-> Get(kw, "required", TRUE),
                       name              |-> name,
                       regex             |-> regex,
                       title             |-> Get(kw, "title", None),
                       description       |-> Get(kw, "description", None),
                       default           |-> Get(kw, "default", None),
                       metadata          |-> Get(kw, "metadata", None),
                       drop_invalid_rows |-> Get(kw, "drop_invalid_rows", FALSE)]]

\* Column.properties
properties(c) ==
    [dtype             |-> c.dtype,
     checks            |-> c.checks,
     nullable          |-> c.nullable,
     unique            |-> c.unique,
     report_duplicates |-> c.report_duplicates,
     coerce            |-> c.coerce,
     required          |-> c.required,
     name              |-> c.name,
     regex             |-> c.regex,
     title             |-> c.title,
     description       |-> c.description,
     default           |-> c.default,
     metadata          |-> c.metadata]

\* Column.set_name
set_name(c, n) == [c EXCEPT !.name = n]

\* Index(dtype=, name=, checks=, nullable=, unique=, coerce=): the Index
\* schema component holding the attributes it is given
Index(dtype, name, checks, nullable, unique, coerce) ==
    [kind     |-> "Index",
     dtype    |-> dtype,
     checks   |-> checks,
     nullable |-> nullable,
     unique   |-> unique,
     coerce   |-> coerce,
     name     |-> name]

NoIndex == [kind |-> "None"]

\* isinstance(x, Index)
IsIndex(x) == "kind" \in DOMAIN x /\ x.kind = "Index"

(***************************************************************************)
(* BaseDataFrameSchema.__init__ and MultiIndex.__init__                    *)
(***************************************************************************)
\* a check whose group-by is a list naming a key that is not in column_dict
GroupbyMissing(check, column_dict) ==
    /\ check.groupby.kind = "list"
    /\ \E i \in DOMAIN check.groupby.keys :
          ~HasKey(column_dict, check.groupby.keys[i])

\* the group-by references left unchecked
_validate_columns_skip(column_dict) == OK

\* _validate_columns: SchemaInitError when some column has such a check
_validate_columns(column_dict) ==
    IF \E i \in DOMAIN column_dict :
          \E j \in DOMAIN column_dict[i].col.checks :
             GroupbyMissing(column_dict[i].col.checks[j], column_dict)
    THEN "SchemaInitError"
    ELSE OK

\* _columns_renamed: each column deep-copied and named after its key
_columns_renamed(columns) ==
    [i \in DOMAIN columns |->
        Entry(columns[i].key, set_name(columns[i].col, columns[i].key))]

\* Python's == between an argument and a literal: 1 == True, 0 == False
PyEq(a, b) ==
    \/ a = b
    \/ {a, b} = {"#1", "True"}
    \/ {a, b} = {"#0", "False"}

\* the membership test left out
strict_ok_unchecked(strict) == TRUE

\* strict in (False, True, "filter")
strict_ok(strict) == \E v \in {"False", "True", "filter"} : PyEq(strict, v)

NoUnique == [kind |-> "None"]

\* unique given as one column key, and as a list of column keys
UniqueStr(k) == [kind |-> "str", key |-> k]

UniqueList(ks) == [kind |-> "list", keys |-> ks]

\* the table-level dtype: None, or the DataType the engine makes of the
\* argument, which carries auto_coerce
NoDtype == [kind |-> "None"]

DataType(auto_coerce) == [kind |-> "DataType", auto_coerce |-> auto_coerce]

\* BaseDataFrameSchema.__init__(**kw) for the class cls
BaseDataFrameSchema(cls, kw) ==
    LET columns == Get(kw, "columns", <<>>)
        strict  == Get(kw, "strict", "False")
    IN  IF _validate_columns(columns) # OK
        THEN [exc |-> "SchemaInitError"]
        ELSE IF ~strict_ok(strict)
        THEN [exc |-> "SchemaInitError"]
        ELSE [exc |-> OK,
              obj |-> [kind                |-> cls,
                       columns             |-> _columns_renamed(columns),
                       checks              |-> Get(kw, "checks", <<>>),
                       dtype               |-> Get(kw, "dtype", NoDtype),
                       name                |-> Get(kw, "name", None),
                       title               |-> Get(kw, "title", None),
                       description         |-> Get(kw, "description", None),
                       index               |-> Get(kw, "index", NoIndex),
                       strict              |-> strict,
                       _coerce             |-> Get(kw, "coerce", FALSE),
                       ordered             |-> Get(kw, "ordered", FALSE),
                       _unique             |-> Get(kw, "unique", NoUnique),
                       report_duplicates   |-> Get(kw, "report_duplicates", "all"),
                       unique_column_names |-> Get(kw, "unique_column_names", FALSE),
                       add_missing_columns |-> Get(kw, "add_missing_columns", FALSE),
                       drop_invalid_rows   |-> Get(kw, "drop_invalid_rows", FALSE),
                       _IS_INFERRED        |-> FALSE,
                       metadata            |-> Get(kw, "metadata", None)]]

\* DataFrameSchema(**kw)
DataFrameSchema(kw) == BaseDataFrameSchema("DataFrameSchema", kw)

\* every member filed under its name, a missing name included
MultiIndexColumns_by_name(indexes) ==
    DictOf([i \in DOMAIN indexes |->
        Entry(indexes[i].name,
              Column([dtype    |-> indexes[i].dtype,
                      checks   |-> indexes[i].checks,
                      nullable |-> indexes[i].nullable,
                      unique   |-> indexes[i].unique]).col)])

\* the mapping MultiIndex.__init__ builds from its indexes: one Column per
\* index, under the index's name or, for an unnamed index, its position
MultiIndexColumns(indexes) ==
    DictOf([i \in DOMAIN indexes |->
        Entry(IF indexes[i].name = None THEN PosKey(i - 1) ELSE indexes[i].name,
              Column([dtype    |-> indexes[i].dtype,
                      checks   |-> indexes[i].checks,
                      nullable |-> indexes[i].nullable,
                      unique   |-> indexes[i].unique]).col)])

\* MultiIndex.__init__(indexes, coerce, strict, name, ordered, unique)
MultiIndex(indexes, kw) ==
    LET ordered == Get(kw, "ordered", TRUE)
    IN  IF \E i \in DOMAIN indexes : ~IsIndex(indexes[i])
        THEN [exc |-> "SchemaInitError"]
        ELSE IF \E i \in DOMAIN indexes : ~ordered /\ indexes[i].name = None
        THEN [exc |-> "SchemaInitError"]
        ELSE LET base == BaseDataFrameSchema("MultiIndex",
                            [columns |-> MultiIndexColumns(indexes),
                             coerce  |-> Get(kw, "coerce", FALSE),
                             strict  |-> Get(kw, "strict", "False"),
                             name    |-> Get(kw, "name", None),
                             ordered |-> ordered,
                             unique  |-> Get(kw, "unique", NoUnique)])
             IN  IF base.exc # OK
                 THEN base
                 ELSE [exc |-> OK,
                       obj |-> [f \in (DOMAIN base.obj) \cup {"indexes"} |->
                                  IF f = "indexes" THEN indexes ELSE base.obj[f]]]

\* MultiIndex.names
names(index) ==
    IF index.kind = "MultiIndex"
    THEN [i \in DOMAIN index.indexes |-> index.indexes[i].name]
    ELSE <<index.name>>

(***************************************************************************)
(* The heap.  A method returns [heap, ret, exc]: the heap it leaves, the   *)
(* object it returns (0 when it raises) and the exception it raises (OK    *)
(* when it returns).                                                       *)
(***************************************************************************)
Raise(h, e) == [heap |-> h, ret |-> 0, exc |-> e]

Return(h, ref) == [heap |-> h, ret |-> ref, exc |-> OK]

\* copy.deepcopy(h[ref]): a new object, equal in value, sharing nothing
deepcopy(h, ref) ==
    [heap |-> Append(h, [h[ref] EXCEPT !.columns = CopyColumns(@)]),
     ref  |-> Len(h) + 1]

(***************************************************************************)
(* Schema transformation methods of BaseDataFrameSchema                    *)
(***************************************************************************)
\* add_columns, remove_columns and update_column are wrapped in
\* inferred_schema_guard, which resets _IS_INFERRED on a changed result; the
\* schemas of the sessions are constructed, never inferred, so _IS_INFERRED
\* is FALSE throughout and the wrapper changes nothing.
\* add_columns, on the copy c of self
add_columns_at(c, self, extra_schema_cols) ==
    LET built == BaseDataFrameSchema(c.heap[self].kind,
                                     [columns |-> extra_schema_cols])
    IN  IF built.exc # OK
        THEN Raise(c.heap, built.exc)
        ELSE Return([c.heap EXCEPT ![c.ref].columns =
                        DictUpdate(@, built.obj.columns)], c.ref)

add_columns(h, self, extra_schema_cols) ==
    add_columns_at(deepcopy(h, self), self, extra_schema_cols)

\* only the first column is popped
PopFirst(columns, cols_to_remove) ==
    IF cols_to_remove = <<>>
    THEN [exc |-> OK, columns |-> columns]
    ELSE IF ~HasKey(columns, Head(cols_to_remove))
    THEN [exc |-> "KeyError", columns |-> columns]
    ELSE [exc |-> OK, columns |-> DictPop(columns, Head(cols_to_remove))]

RECURSIVE PopEach(_, _)
\* for col in cols_to_remove: columns.pop(col)
PopEach(columns, cols_to_remove) ==
    IF cols_to_remove = <<>>
    THEN [exc |-> OK, columns |-> columns]
    ELSE IF ~HasKey(columns, Head(cols_to_remove))
    THEN [exc |-> "KeyError", columns |-> columns]
    ELSE PopEach(DictPop(columns, Head(cols_to_remove)), Tail(cols_to_remove))

\* remove_columns after its deepcopy: what it does to schema_copy
remove_columns_from(schema_copy, cols_to_remove) ==
    IF NotIn(cols_to_remove, schema_copy.columns) # <<>>
    THEN [exc |-> "SchemaInitError", obj |-> schema_copy]
    ELSE LET p == PopEach(schema_copy.columns, cols_to_remove)
         IN  [exc |-> p.exc, obj |-> [schema_copy EXCEPT !.columns = p.columns]]

remove_columns_at(c, cols_to_remove) ==
    LET r  == remove_columns_from(c.heap[c.ref], cols_to_remove)
        h1 == [c.heap EXCEPT ![c.ref] = r.obj]
    IN  IF r.exc # OK THEN Raise(h1, r.exc) ELSE Return(h1, c.ref)

remove_columns(h, self, cols_to_remove) ==
    remove_columns_at(deepcopy(h, self), cols_to_remove)

update_column(h, self, column_name, kwargs) ==
    IF "name" \in DOMAIN kwargs
    THEN Raise(h, "ValueError")
    ELSE IF ~HasKey(h[self].columns, column_name)
    THEN Raise(h, "ValueError")
    ELSE LET c           == deepcopy(h, self)
             column_copy == Lookup(h[self].columns, column_name).col
             new_column  == Column(KwMerge(properties(column_copy), kwargs))
         IN  IF new_column.exc # OK
             THEN Raise(c.heap, new_column.exc)
             ELSE Return([c.heap EXCEPT ![c.ref].columns =
                             DictSet(@, Entry(column_name, new_column.col))],
                         c.ref)

\* update_dict.get(col), NoKw when col is not a key
UpdateFor(update_dict, col) ==
    IF HasKey(update_dict, col) THEN Lookup(update_dict, col).kw ELSE NoKw

\* one turn of the loop of update_columns, for the column entry e
UpdatedColumn(e, update_dict) ==
    LET kw == UpdateFor(update_dict, e.key)
    IN  IF DOMAIN kw # {} /\ "name" \in DOMAIN kw /\ Truthy(kw.name)
        THEN [exc |-> "SchemaInitError"]
        ELSE Column(KwMerge(properties(e.col), kw))

update_columns(h, self, update_dict) ==
    LET c    == deepcopy(h, self)
        cols == c.heap[c.ref].columns
        new  == [i \in DOMAIN cols |-> UpdatedColumn(cols[i], update_dict)]
        bad  == {i \in DOMAIN cols : new[i].exc # OK}
    IN  IF NotIn(KeySeq(update_dict), cols) # <<>>
        THEN Raise(c.heap, "SchemaInitError")
        ELSE IF bad # {}
        THEN Raise(c.heap, new[CHOOSE i \in bad : \A j \in bad : i <= j].exc)
        ELSE Return([c.heap EXCEPT ![c.ref].columns =
                        [i \in DOMAIN cols |-> Entry(cols[i].key, new[i].col)]],
                    c.ref)

\* rename_dict[k]
NewName(rename_dict, k) == Lookup(rename_dict, k).val

\* rename_columns, on the copy c of self
rename_columns_at(c, rename_dict) ==
    LET cols     == c.heap[c.ref].columns
        renaming == SelectSeq(rename_dict, LAMBDA e : e.key # e.val)
        already_in_columns ==
            SelectSeq(renaming, LAMBDA e : HasKey(cols, e.val))
        new_columns ==
            DictOf([i \in DOMAIN cols |->
                IF HasKey(renaming, cols[i].key)
                THEN [key |-> NewName(renaming, cols[i].key),
                      col |-> set_name(cols[i].col,
                                       NewName(renaming, cols[i].key)),
                      oid |-> cols[i].oid]
                ELSE cols[i]])
    IN  IF NotIn(KeySeq(rename_dict), cols) # <<>>
        THEN Raise(c.heap, "SchemaInitError")
        ELSE IF already_in_columns # <<>>
        THEN Raise(c.heap, "SchemaInitError")
        ELSE Return([c.heap EXCEPT ![c.ref].columns = new_columns], c.ref)

\* the renaming done on self, without the deepcopy
rename_columns_in_place(h, self, rename_dict) ==
    rename_columns_at([heap |-> h, ref |-> self], rename_dict)

rename_columns(h, self, rename_dict) ==
    rename_columns_at(deepcopy(h, self), rename_dict)

\* the selected columns listed in the order of the argument
select_columns_in_argument_order(h, self, columns) ==
    LET c == deepcopy(h, self)
    IN  IF NotIn(columns, c.heap[c.ref].columns) # <<>>
        THEN Raise(c.heap, "SchemaInitError")
        ELSE Return([c.heap EXCEPT ![c.ref].columns =
                        [i \in DOMAIN columns |->
                            Lookup(h[self].columns, columns[i])]],
                    c.ref)

\* select_columns(columns): the columns of self whose key is in columns
select_columns(h, self, columns) ==
    LET c == deepcopy(h, self)
    IN  IF NotIn(columns, c.heap[c.ref].columns) # <<>>
        THEN Raise(c.heap, "SchemaInitError")
        ELSE Return([c.heap EXCEPT ![c.ref].columns =
                        SelectSeq(h[self].columns,
                                  LAMBDA e : e.key \in Range(columns))],
                    c.ref)

(***************************************************************************)
(* DataFrameSchema.set_index / reset_index                                 *)
(***************************************************************************)
\* the lists list(set(xs)) can be: the distinct elements of xs in any order
ListOfSet(xs) ==
    {p \in [1..Cardinality(Range(xs)) -> Range(xs)] : Range(p) = Range(xs)}

\* the Index set_index makes of the column under key col
IndexOfColumn(columns, col) ==
    Index(Lookup(columns, col).col.dtype,
          col,
          Lookup(columns, col).col.checks,
          Lookup(columns, col).col.nullable,
          Lookup(columns, col).col.unique,
          Lookup(columns, col).col.coerce)

\* append ignored: the keys always replace the index
set_index_no_append(h, self, keys_temp, drop, append) ==
    LET c          == deepcopy(h, self)
        new_schema == c.heap[c.ref]
        ind_list   == [i \in DOMAIN keys_temp |->
                          IndexOfColumn(new_schema.columns, keys_temp[i])]
        multi      == MultiIndex(ind_list, NoKw)
    IN  IF NotIn(keys_temp, new_schema.columns) # <<>>
        THEN Raise(c.heap, "SchemaInitError")
        ELSE IF Len(ind_list) # 1 /\ multi.exc # OK
        THEN Raise(c.heap, multi.exc)
        ELSE LET h1 == [c.heap EXCEPT ![c.ref].index =
                           IF Len(ind_list) = 1 THEN ind_list[1] ELSE multi.obj]
             IN  IF drop
                 THEN remove_columns(h1, c.ref, keys_temp)
                 ELSE Return(h1, c.ref)

\* set_index(keys, drop, append); keys_temp is keys, or list(set(keys)) when
\* keys is not a list
set_index(h, self, keys_temp, drop, append) ==
    LET c          == deepcopy(h, self)
        new_schema == c.heap[c.ref]
        ind_list   ==
            (IF new_schema.index.kind = "None" \/ ~append
             THEN <<>>
             ELSE IF new_schema.index.kind = "MultiIndex"
             THEN new_schema.index.indexes
             ELSE <<new_schema.index>>)
            \o [i \in DOMAIN keys_temp |->
                   IndexOfColumn(new_schema.columns, keys_temp[i])]
        multi      == MultiIndex(ind_list, NoKw)
    IN  IF NotIn(keys_temp, new_schema.columns) # <<>>
        THEN Raise(c.heap, "SchemaInitError")
        ELSE IF Len(ind_list) # 1 /\ multi.exc # OK
        THEN Raise(c.heap, multi.exc)
        ELSE LET h1 == [c.heap EXCEPT ![c.ref].index =
                           IF Len(ind_list) = 1 THEN ind_list[1] ELSE multi.obj]
             IN  IF drop
                 THEN remove_columns(h1, c.ref, keys_temp)
                 ELSE Return(h1, c.ref)

\* the Index reset_index makes of the one column left in new_index
IndexOfLevel(e) ==
    Index(e.col.dtype, e.col.name, e.col.checks, e.col.nullable,
          e.col.unique, e.col.coerce)

\* the Column reset_index makes of the index or index column v
ColumnOfLevel(k, v) ==
    Entry(k, Column([dtype    |-> v.dtype,
                     checks   |-> v.checks,
                     nullable |-> v.nullable,
                     unique   |-> v.unique,
                     coerce   |-> v.coerce,
                     name     |-> v.name]).col)

\* reset_index(level, drop); level is [none |-> TRUE] for None and else
\* [none |-> FALSE, items |-> the list]; level_set is list(set(level))
reset_index(h, self, level, drop, level_set) ==
    IF ~level.none /\ level.items = <<>>
    THEN Return(h, self)
    ELSE
    LET c          == deepcopy(h, self)
        new_schema == c.heap[c.ref]
        index      == new_schema.index
        level_temp == IF level.none THEN names(index) ELSE level_set
        level_not_in_index ==
            IF index.kind = "MultiIndex" /\ level_temp # <<>>
            THEN SelectSeq(level_temp, LAMBDA x : x \notin Range(names(index)))
            ELSE IF index.kind = "Index" /\ level_temp = <<index.name>>
            THEN <<>>
            ELSE level_temp
        removed    ==
            IF level_temp = <<>> \/ index.kind = "Index"
            THEN [exc |-> OK, obj |-> NoIndex]
            ELSE remove_columns_from(index, level_temp)
        new_index  ==
            IF removed.obj.kind = "None"
            THEN NoIndex
            ELSE IF Len(removed.obj.columns) = 1
            THEN IndexOfLevel(removed.obj.columns[1])
            ELSE IF Len(removed.obj.columns) = 0
            THEN NoIndex
            ELSE removed.obj
        additional_columns ==
            IF index.kind = "MultiIndex"
            THEN DictOf([i \in DOMAIN level_temp |->
                    [key |-> level_temp[i],
                     v   |-> Lookup(index.columns, level_temp[i]).col]])
            ELSE <<[key |-> index.name, v |-> index]>>
        added      ==
            add_columns(c.heap, c.ref,
                        [i \in DOMAIN additional_columns |->
                            ColumnOfLevel(additional_columns[i].key,
                                          additional_columns[i].v)])
    IN  IF index.kind = "None"
        THEN Raise(c.heap, "SchemaInitError")
        ELSE IF level_not_in_index # <<>>
        THEN Raise(c.heap, "SchemaInitError")
        ELSE IF removed.exc # OK
        THEN Raise(c.heap, removed.exc)
        ELSE IF drop
        THEN Return([c.heap EXCEPT ![c.ref].index = new_index], c.ref)
        ELSE IF added.exc # OK
        THEN added
        ELSE Return([added.heap EXCEPT ![added.ret].index = new_index], added.ret)

(***************************************************************************)
(* Inputs of the sessions                                                  *)
(***************************************************************************)
ColA == Column([dtype |-> "int", nullable |-> TRUE, coerce |-> TRUE,
                checks |-> <<Check("gt", NoGroupby)>>]).col

ColB == Column([dtype |-> "str", unique |-> TRUE, required |-> FALSE,
                drop_invalid_rows |-> TRUE]).col

\* a column with a check grouped by column "a"
ColG == Column([dtype |-> "float",
                checks |-> <<Check("grp", ListGroupby(<<"a">>))>>]).col

\* a regex column with a check grouped by a callable
ColF == Column([dtype |-> "float", regex |-> TRUE, name |-> "old",
                checks |-> <<Check("fn", CallableGroupby)>>]).col

ColP == Column([dtype |-> "bool"]).col

IdxI == Index("int", "i", <<Check("gt", NoGroupby)>>, FALSE, TRUE, TRUE)

IdxJ == Index("str", "j", <<>>, TRUE, FALSE, FALSE)

MultiIJ == MultiIndex(<<IdxI, IdxJ>>, NoKw).obj

\* the schemas a session starts from, as constructor arguments
InitInputs ==
    { [columns |-> <<Entry("a", ColA), Entry("b", ColB), Entry("c", ColG)>>,
       strict  |-> "True"],
      [columns |-> <<Entry("a", ColA), Entry("b", ColB)>>,
       index   |-> IdxI, strict |-> "filter", ordered |-> TRUE],
      [columns |-> <<Entry("c", ColF), Entry("a", ColA)>>,
       index   |-> MultiIJ, coerce |-> TRUE],
      [columns |-> <<Entry("b", ColP)>>] }

AddArgs ==
    { <<Entry("d", ColP)>>,
      <<Entry("d", ColG)>>,
      <<Entry("a", ColP)>>,
      <<Entry("d", ColB), Entry("e", ColF)>> }

RemoveArgs ==
    { <<>>, <<"a">>, <<"b">>, <<"d">>, <<"a", "b">>, <<"d", "e">>,
      <<"a", "a">>, <<"z">>, <<"a", "z">> }

UpdateColumnArgs ==
    { [column_name |-> "a", kwargs |-> [nullable |-> FALSE]],
      [column_name |-> "b", kwargs |-> [coerce |-> TRUE, dtype |-> "int"]],
      [column_name |-> "a", kwargs |-> [name |-> "x"]],
      [column_name |-> "z", kwargs |-> [nullable |-> FALSE]] }

UpdateColumnsArgs ==
    { <<[key |-> "a", kw |-> [nullable |-> FALSE]]>>,
      <<[key |-> "a", kw |-> [name |-> "x"]]>>,
      <<[key |-> "a", kw |-> [name |-> ""]]>>,
      <<[key |-> "a", kw |-> NoKw], [key |-> "b", kw |-> [unique |-> FALSE]]>>,
      <<[key |-> "z", kw |-> [nullable |-> FALSE]]>>,
      <<>> }

RenameArgs ==
    { <<[key |-> "a", val |-> "d"]>>,
      <<[key |-> "a", val |-> "b"]>>,
      <<[key |-> "a", val |-> "a"]>>,
      <<[key |-> "a", val |-> "d"], [key |-> "b", val |-> "d"]>>,
      <<[key |-> "a", val |-> "e"], [key |-> "b", val |-> "d"]>>,
      <<[key |-> "z", val |-> "d"]>>,
      <<>> }

SelectArgs ==
    { <<>>, <<"a">>, <<"b", "a">>, <<"a", "a">>, <<"c">>, <<"z">> }

\* keys of set_index: a list, or (list |-> FALSE) another iterable
SetIndexKeys ==
    { [list |-> TRUE, items |-> <<"a">>],
      [list |-> TRUE, items |-> <<"c">>],
      [list |-> TRUE, items |-> <<"b", "a">>],
      [list |-> TRUE, items |-> <<"a", "a">>],
      [list |-> TRUE, items |-> <<"z">>],
      [list |-> TRUE, items |-> <<>>],
      [list |-> FALSE, items |-> <<"a", "a">>] }

ResetLevels ==
    { [none |-> TRUE],
      [none |-> FALSE, items |-> <<>>],
      [none |-> FALSE, items |-> <<"i">>],
      [none |-> FALSE, items |-> <<"a">>],
      [none |-> FALSE, items |-> <<"j", "i">>],
      [none |-> FALSE, items |-> <<"a", "a">>],
      [none |-> FALSE, items |-> <<"z">>] }

(***************************************************************************)
(* Sessions: a schema is constructed, then transforms are called on the    *)
(* schemas of the session.  origin[i] is the call that made object i, last *)
(* is the latest call with its outcome.                                    *)
(***************************************************************************)
\* the Column objects a call created get their identity
Alloc(obj, id) ==
    [obj EXCEPT !.columns =
        [i \in DOMAIN @ |-> IF @[i].oid = NoOid
                            THEN [@[i] EXCEPT !.oid = <<id, i>>]
                            ELSE @[i]]]

Call(op, self, args) == [op |-> op, self |-> self, args |-> args]

\* the call `call` ended as r: the objects it no longer refers to are gone
Commit(call, r) ==
    LET n     == Len(heap)
        fresh == r.exc = OK /\ r.ret > n
    IN  /\ heap' = IF fresh
                   THEN Append(SubSeq(r.heap, 1, n), Alloc(r.heap[r.ret], n + 1))
                   ELSE SubSeq(r.heap, 1, n)
        /\ origin' = IF fresh THEN Append(origin, call) ELSE origin
        /\ last' = [call |-> call, exc |-> r.exc,
                    ret  |-> IF r.exc # OK THEN 0
                             ELSE IF fresh THEN n + 1 ELSE r.ret]
        /\ UNCHANGED runs

\* calls are chained: the receiver is the schema the session made last; a call
\* that raises ends the session
Receivers == IF Len(heap) < MaxObjs /\ last.exc = OK THEN {Len(heap)} ELSE {}

Init ==
    \E kw \in InitInputs :
        /\ heap = <<Alloc(DataFrameSchema(kw).obj, 1)>>
        /\ origin = <<Call("__init__", 0, kw)>>
        /\ last = [call |-> Call("__init__", 0, kw), exc |-> OK, ret |-> 1]
        /\ runs = <<>>

AddColumns ==
    \E self \in Receivers, x \in AddArgs :
        Commit(Call("add_columns", self, x), add_columns(heap, self, x))

RemoveColumns ==
    \E self \in Receivers, x \in RemoveArgs :
        Commit(Call("remove_columns", self, x), remove_columns(heap, self, x))

UpdateColumn ==
    \E self \in Receivers, x \in UpdateColumnArgs :
        Commit(Call("update_column", self, x),
               update_column(heap, self, x.column_name, x.kwargs))

UpdateColumns ==
    \E self \in Receivers, x \in UpdateColumnsArgs :
        Commit(Call("update_columns", self, x), update_columns(heap, self, x))

RenameColumns ==
    \E self \in Receivers, x \in RenameArgs :
        Commit(Call("rename_columns", self, x), rename_columns(heap, self, x))

SelectColumns ==
    \E self \in Receivers, x \in SelectArgs :
        Commit(Call("select_columns", self, x), select_columns(heap, self, x))

SetIndex ==
    \E self \in Receivers, keys \in SetIndexKeys, drop \in BOOLEAN,
       append \in BOOLEAN :
        \E keys_temp \in (IF keys.list THEN {keys.items}
                          ELSE ListOfSet(keys.items)) :
            Commit(Call("set_index", self,
                        [keys |-> keys, drop |-> drop, append |-> append]),
                   set_index(heap, self, keys_temp, drop, append))

ResetIndex ==
    \E self \in Receivers, level \in ResetLevels, drop \in BOOLEAN :
        \E level_set \in (IF level.none THEN {<<>>}
                          ELSE ListOfSet(level.items)) :
            Commit(Call("reset_index", self, [level |-> level, drop |-> drop]),
                   reset_index(heap, self, level, drop, level_set))

Next ==
    \/ AddColumns
    \/ RemoveColumns
    \/ UpdateColumn
    \/ UpdateColumns
    \/ RenameColumns
    \/ SelectColumns
    \/ SetIndex
    \/ ResetIndex

Spec == Init /\ [][Next]_vars

(***************************************************************************)
(* Construction sessions: one DataFrameSchema(...) call                    *)
(***************************************************************************)
ColumnDicts ==
    { <<>>,
      <<Entry("a", ColA)>>,
      <<Entry("a", ColA), Entry("c", ColG)>>,
      <<Entry("c", ColG), Entry("a", ColA)>>,
      <<Entry("c", ColG)>>,
      <<Entry("b", ColB), Entry("c", ColG)>>,
      <<Entry("c", ColF), Entry("b", ColB)>>,
      <<Entry("b", Column([checks |->
            <<Check("ok", ListGroupby(<<"b">>)),
              Check("two", ListGroupby(<<"b", "z">>))>>]).col)>> }

\* True, False, "filter", another string, None, and the integers 1, 0, 2
StrictInputs == {"True", "False", "filter", "exact", None, "#1", "#0", "#2"}

CtorInputs ==
    {[columns |-> c, strict |-> s, index |-> i] :
        c \in ColumnDicts, s \in StrictInputs, i \in {NoIndex, IdxI}}
    \cup {[columns |-> c] : c \in ColumnDicts}

InitCtor ==
    /\ heap = <<>>
    /\ origin = <<>>
    /\ last = [call |-> Call("none", 0, NoKw), exc |-> OK, ret |-> 0]
    /\ runs = <<>>

Construct ==
    \E kw \in CtorInputs :
        LET r == DataFrameSchema(kw)
        IN  /\ heap = <<>>
            /\ heap' = IF r.exc = OK THEN <<Alloc(r.obj, 1)>> ELSE <<>>
            /\ origin' = IF r.exc = OK THEN <<Call("__init__", 0, kw)>> ELSE <<>>
            /\ last' = [call |-> Call("__init__", 0, kw), exc |-> r.exc,
                        ret  |-> IF r.exc = OK THEN 1 ELSE 0]
            /\ UNCHANGED runs

NextCtor == Construct

SpecCtor == InitCtor /\ [][NextCtor]_vars

(***************************************************************************)
(* Component sessions: one MultiIndex(...), Column(...) or                 *)
(* DataFrameSchema(...) call, or one duplicate report                      *)
(***************************************************************************)
\* a MultiIndex of the sessions has at most MaxLevels members
MaxLevels == 3

\* an Index without name
IdxU == Index("float", None, <<>>, FALSE, FALSE, FALSE)

\* members given to MultiIndex: three Index objects, None and a Column
Members == {IdxI, IdxJ, IdxU, NoIndex, ColP}

RECURSIVE SeqsUpTo(_, _)
\* the lists of at most n elements of S
SeqsUpTo(S, n) ==
    IF n = 0
    THEN {<<>>}
    ELSE LET shorter == SeqsUpTo(S, n - 1)
         IN  shorter \cup {Append(q, x) :
                             q \in {t \in shorter : Len(t) = n - 1}, x \in S}

MultiIndexArgs ==
    {[indexes |-> ix, kw |-> kw] :
        ix \in SeqsUpTo(Members, MaxLevels),
        kw \in {NoKw, [ordered |-> FALSE], [ordered |-> TRUE, coerce |-> TRUE]}}

ConstructMultiIndex ==
    \E x \in MultiIndexArgs :
        LET r == MultiIndex(x.indexes, x.kw)
        IN  /\ heap = <<>>
            /\ last.call.op = "none"
            /\ heap' = IF r.exc = OK THEN <<Alloc(r.obj, 1)>> ELSE <<>>
            /\ origin' = IF r.exc = OK THEN <<Call("MultiIndex", 0, x)>>
                         ELSE <<>>
            /\ last' = [call |-> Call("MultiIndex", 0, x), exc |-> r.exc,
                        ret  |-> IF r.exc = OK THEN 1 ELSE 0]
            /\ UNCHANGED runs

\* name and regex of Column(...): no name, strings, a tuple of strings,
\* integers, a tuple holding an integer
ColumnArgs ==
    {NoKw, [dtype |-> "int", required |-> FALSE]}
    \cup {[name |-> n, regex |-> r] :
             n \in {None, "x", "^val_", "(a, b)", "#1", "#0", "#t"},
             r \in BOOLEAN}

ConstructColumn ==
    \E kw \in ColumnArgs :
        LET r == Column(kw)
        IN  /\ heap = <<>>
            /\ last.call.op = "none"
            /\ heap' = IF r.exc = OK THEN <<r.col>> ELSE <<>>
            /\ origin' = IF r.exc = OK THEN <<Call("Column", 0, kw)>> ELSE <<>>
            /\ last' = [call |-> Call("Column", 0, kw), exc |-> r.exc,
                        ret  |-> IF r.exc = OK THEN 1 ELSE 0]
            /\ UNCHANGED runs

\* a regex column and a literal column
ColR == Column([dtype |-> "float", regex |-> TRUE]).col

ColN == Column([dtype |-> "int", name |-> "#2"]).col

\* column mappings with string, tuple and integer keys
KeyedInputs ==
    {[columns |-> <<Entry(k, c)>>] :
        k \in {"x", "^val_", "(a, b)", "#1", "#t"}, c \in {ColR, ColN, ColA}}
    \cup {[columns |-> <<Entry("a", ColA), Entry(k, ColR)>>,
           strict  |-> "filter"] : k \in {"^b", "#0"}}

ConstructKeyed ==
    \E kw \in KeyedInputs :
        LET r == DataFrameSchema(kw)
        IN  /\ heap = <<>>
            /\ last.call.op = "none"
            /\ heap' = IF r.exc = OK THEN <<Alloc(r.obj, 1)>> ELSE <<>>
            /\ origin' = IF r.exc = OK THEN <<Call("__init__", 0, kw)>> ELSE <<>>
            /\ last' = [call |-> Call("__init__", 0, kw), exc |-> r.exc,
                        ret  |-> IF r.exc = OK THEN 1 ELSE 0]
            /\ UNCHANGED runs

\* a column of the duplicate reports has at most MaxRows values
MaxRows == 3

\* the two exclusions exchanged
convert_uniquesettings_swapped(unique) ==
    IF unique = "exclude_first" THEN [exc |-> OK, keep |-> "last"]
    ELSE IF unique = "exclude_last" THEN [exc |-> OK, keep |-> "first"]
    ELSE IF unique = "all" THEN [exc |-> OK, keep |-> "False"]
    ELSE [exc |-> "ValueError"]

\* convert_uniquesettings: the keep argument of the duplicated() call, or
\* ValueError
convert_uniquesettings(unique) ==
    IF unique = "exclude_first" THEN [exc |-> OK, keep |-> "first"]
    ELSE IF unique = "exclude_last" THEN [exc |-> OK, keep |-> "last"]
    ELSE IF unique = "all" THEN [exc |-> OK, keep |-> "False"]
    ELSE [exc |-> "ValueError"]

\* the duplicate-detection primitive values.duplicated(keep=keep): an
\* occurrence is flagged when an equal value comes earlier (keep "first"),
\* later (keep "last") or anywhere else (keep False)
duplicated(values, keep) ==
    [i \in DOMAIN values |->
        CASE keep = "first" -> \E j \in 1..(i - 1) : values[j] = values[i]
          [] keep = "last"  ->
                \E j \in (i + 1)..Len(values) : values[j] = values[i]
          [] OTHER          ->
                \E j \in DOMAIN values : j # i /\ values[j] = values[i]]

\* the duplicate report of a column under the setting report_duplicates
flag_duplicates(values, unique) ==
    LET k == convert_uniquesettings(unique)
    IN  IF k.exc # OK
        THEN [exc |-> k.exc]
        ELSE [exc |-> OK, keep |-> k.keep, flags |-> duplicated(values, k.keep)]

\* the three settings, pandas' own keep values and None
UniqueSettings ==
    {"exclude_first", "exclude_last", "all", "first", "False", None}

ReportDuplicates ==
    \E values \in SeqsUpTo({1, 2, 3}, MaxRows), unique \in UniqueSettings :
        LET r == flag_duplicates(values, unique)
        IN  /\ heap = <<>>
            /\ last.call.op = "none"
            /\ last' = [call |-> Call("duplicated", 0,
                                      [values |-> values, unique |-> unique]),
                        exc  |-> r.exc,
                        ret  |-> IF r.exc = OK
                                 THEN [keep |-> r.keep, flags |-> r.flags]
                                 ELSE [keep |-> None, flags |-> <<>>]]
            /\ UNCHANGED <<heap, origin, runs>>

NextParts ==
    \/ ConstructMultiIndex
    \/ ConstructColumn
    \/ ConstructKeyed
    \/ ReportDuplicates

SpecParts == InitCtor /\ [][NextParts]_vars

(***************************************************************************)
(* Validation.  validate and _validate hand the call to the backend that   *)
(* get_backend resolves; the backend pipeline is the one of the            *)
(* specification's sections 4.4 and 4.5: check-required-and-strictness,    *)
(* per-column checks, table-level checks, aggregate.  The schemas of the   *)
(* validation sessions have no index, no coercion, no uniqueness and no    *)
(* regex column, so the other stages have nothing to do.  A container is   *)
(* its column labels in order, the (label, check) pairs and the            *)
(* table-level checks that fail on its data; it is not a dask collection.  *)
(***************************************************************************)
Container(labels, bad, tablebad) ==
    [labels |-> labels, bad |-> bad, tablebad |-> tablebad]

Item(stage, column, check) ==
    [stage |-> stage, column |-> column, check |-> check]

RECURSIVE Flatten(_)
\* the concatenation of a list of lists
Flatten(ss) == IF ss = <<>> THEN <<>> ELSE Head(ss) \o Flatten(Tail(ss))

\* strictness: with strict=True every undeclared container column fails
StrictItems(schema, container) ==
    IF PyEq(schema.strict, "True")
    THEN LET extra == SelectSeq(container.labels,
                                LAMBDA l : ~HasKey(schema.columns, l))
         IN  [i \in DOMAIN extra |-> Item("strict", extra[i], None)]
    ELSE <<>>

\* presence: every required declared column the container lacks fails
RequiredItems(schema, container) ==
    LET missing == SelectSeq(schema.columns,
                             LAMBDA e : /\ e.col.required
                                        /\ e.key \notin Range(container.labels))
    IN  [i \in DOMAIN missing |-> Item("required", missing[i].key, None)]

\* the checks of the declared columns the container has, by column
\* declaration order, then check declaration order
ColumnItems(schema, container) ==
    LET present == SelectSeq(schema.columns,
                             LAMBDA e : e.key \in Range(container.labels))
    IN  Flatten([i \in DOMAIN present |->
            [j \in DOMAIN present[i].col.checks |->
                Item("column", present[i].key, present[i].col.checks[j].name)]])

\* the table-level checks, in declaration order
TableItems(schema) ==
    [j \in DOMAIN schema.checks |-> Item("table", None, schema.checks[j].name)]

\* what one validation pass evaluates, in pipeline order
Pipeline(schema, container) ==
    StrictItems(schema, container) \o RequiredItems(schema, container)
        \o ColumnItems(schema, container) \o TableItems(schema)

\* the outcome of one item on the container's data
Fails(item, container) ==
    CASE item.stage = "column" -> <<item.column, item.check>> \in container.bad
      [] item.stage = "table"  -> item.check \in container.tablebad
      [] OTHER                 -> TRUE

\* evaluating the item calls a check predicate
IsPredicate(item) == item.stage \in {"column", "table"}

\* the container a successful validation returns: with strict='filter' the
\* undeclared columns are dropped
Unfiltered(schema, container) == container

Filtered(schema, container) ==
    IF schema.strict = "filter"
    THEN [container EXCEPT !.labels =
             SelectSeq(@, LAMBDA l : HasKey(schema.columns, l))]
    ELSE container

\* the place of a failure in the report: its column's place in the
\* declaration (an undeclared column before, the table level after the
\* declared columns), then its check's place in the declaration
ColumnRank(schema, item) ==
    CASE item.stage = "strict" -> 0
      [] item.stage = "table"  -> Len(schema.columns) + 1
      [] OTHER -> CHOOSE i \in DOMAIN schema.columns :
                     schema.columns[i].key = item.column

Before(schema, pipeline, i, j) ==
    \/ ColumnRank(schema, pipeline[i]) < ColumnRank(schema, pipeline[j])
    \/ /\ ColumnRank(schema, pipeline[i]) = ColumnRank(schema, pipeline[j])
       /\ i < j

\* the failures as they were found
AggregateAsFound(schema, pipeline, found) ==
    [k \in DOMAIN found |-> pipeline[found[k]]]

\* the Error Aggregator: the failures found, in report order
Aggregate(schema, pipeline, found) ==
    LET F == Range(found)
        place(i) == 1 + Cardinality({j \in F : Before(schema, pipeline, j, i)})
    IN  [k \in 1..Cardinality(F) |->
            pipeline[CHOOSE i \in F : place(i) = k]]

\* any item not yet evaluated, in both modes
NextItemsAny(run, pipeline) == DOMAIN pipeline \ run.evaluated

\* the items the backend may evaluate next: in eager mode the first one not
\* yet evaluated, in lazy mode any one (partitions and checks may be
\* evaluated in any order)
NextItems(run, pipeline) ==
    LET todo == DOMAIN pipeline \ run.evaluated
    IN  IF run.lazy
        THEN todo
        ELSE {i \in todo : \A j \in todo : i <= j}

\* the pass ends as soon as a failure is found
CompleteOnFailure(run, pipeline) ==
    run.found # <<>> \/ run.evaluated = DOMAIN pipeline

\* the pass is complete: every item has been evaluated
Complete(run, pipeline) == run.evaluated = DOMAIN pipeline

Idle == [pc |-> "idle"]

\* the inferred flag cleared once the warning is given
_validate_clearing_flag(h, self, args) ==
    [heap |-> [h EXCEPT ![self]._IS_INFERRED = FALSE],
     run  |-> [pc |-> "run", schema |-> self, container |-> args.container,
               lazy |-> args.lazy, inplace |-> args.inplace,
               warned |-> h[self]._IS_INFERRED,
               evaluated |-> {}, found |-> <<>>, invoked |-> 0,
               exc |-> OK, errors |-> <<>>, ret |-> <<>>]]

\* validate -> _validate: a warning for an inferred schema, then the
\* backend's validate starts on check_obj with schema=self
_validate(h, self, args) ==
    [heap |-> h,
     run  |-> [pc |-> "run", schema |-> self, container |-> args.container,
               lazy |-> args.lazy, inplace |-> args.inplace,
               warned |-> h[self]._IS_INFERRED,
               evaluated |-> {}, found |-> <<>>, invoked |-> 0,
               exc |-> OK, errors |-> <<>>, ret |-> <<>>]]

\* caller c calls schema.validate(container, lazy=, inplace=); the outcome of
\* the call is kept in runs[c]
StartValidate(c, containers) ==
    \E container \in containers, lazy \in BOOLEAN, inplace \in BOOLEAN :
        LET args == [container |-> container, lazy |-> lazy,
                     inplace |-> inplace]
            r    == _validate(heap, 1, args)
        IN  /\ runs[c].pc = "idle"
            /\ heap' = r.heap
            /\ runs' = [runs EXCEPT ![c] = r.run]
            /\ UNCHANGED <<origin, last>>

\* the backend evaluates one item of caller c's pass; in eager mode a
\* failure raises SchemaError at once
Evaluate(c) ==
    /\ runs[c].pc = "run"
    /\ LET run      == runs[c]
           pipeline == Pipeline(heap[run.schema], run.container)
       IN  \E i \in NextItems(run, pipeline) :
              LET failed == Fails(pipeline[i], run.container)
                  seen   == [run EXCEPT
                               !.evaluated = @ \cup {i},
                               !.invoked = IF IsPredicate(pipeline[i])
                                           THEN @ + 1 ELSE @,
                               !.found = IF failed THEN Append(@, i) ELSE @]
              IN  runs' = [runs EXCEPT ![c] =
                              IF failed /\ ~run.lazy
                              THEN [seen EXCEPT !.pc = "done",
                                                !.exc = "SchemaError",
                                                !.errors = <<pipeline[i]>>]
                              ELSE seen]
    /\ UNCHANGED <<heap, origin, last>>

\* the pass of caller c is complete: SchemaErrors with the failures found,
\* or the container (ret holds the returned container, if any)
Finish(c) ==
    /\ runs[c].pc = "run"
    /\ LET run      == runs[c]
           schema   == heap[run.schema]
           pipeline == Pipeline(schema, run.container)
       IN  /\ Complete(run, pipeline)
           /\ runs' = [runs EXCEPT ![c] =
                 IF run.found # <<>>
                 THEN [run EXCEPT !.pc = "done", !.exc = "SchemaErrors",
                          !.errors = Aggregate(schema, pipeline, run.found)]
                 ELSE [run EXCEPT !.pc = "done",
                          !.ret = <<Filtered(schema, run.container)>>]]
    /\ UNCHANGED <<heap, origin, last>>

\* the schema of the validation sessions: a and c required, b optional, one
\* table-level check
ValidatedSchema(strict) ==
    DataFrameSchema(
        [columns |->
            <<Entry("a", Column([dtype |-> "int",
                     checks |-> <<Check("gt", NoGroupby)>>]).col),
              Entry("b", Column([dtype |-> "str", required |-> FALSE,
                     checks |-> <<Check("c1", NoGroupby),
                                  Check("c2", NoGroupby)>>]).col),
              Entry("c", Column([dtype |-> "float",
                     checks |-> <<Check("c3", NoGroupby)>>]).col)>>,
         checks |-> <<Check("t1", NoGroupby)>>,
         strict |-> strict]).obj

Containers ==
    {Container(labels, bad, tablebad) :
        labels \in {<<"a", "b", "c">>, <<"b", "a">>, <<"a", "c", "extra">>,
                    <<"extra", "c", "b", "a">>},
        bad \in {{}, {<<"a", "gt">>, <<"b", "c2">>},
                 {<<"b", "c1">>, <<"b", "c2">>, <<"c", "c3">>},
                 {<<"b", "c2">>, <<"c", "c3">>}},
        tablebad \in {{}, {"t1"}}}

\* the schema is constructed, or inferred (_is_inferred set by its setter)
InitValidation(callers, schemas) ==
    \E schema \in schemas, inferred \in BOOLEAN :
        /\ heap = <<[Alloc(schema, 1) EXCEPT !._IS_INFERRED = inferred]>>
        /\ origin = <<Call("__init__", 0, [strict |-> schema.strict])>>
        /\ last = [call |-> Call("__init__", 0, [strict |-> schema.strict]),
                   exc |-> OK, ret |-> 1]
        /\ runs = [c \in callers |-> Idle]

InitValidate ==
    InitValidation({1}, {ValidatedSchema(strict) :
                            strict \in {"True", "False", "filter"}})

NextValidate ==
    \/ StartValidate(1, Containers)
    \/ Evaluate(1)
    \/ Finish(1)

SpecValidate == InitValidate /\ [][NextValidate]_vars

\* several callers validate their containers with one schema at once
MaxCallers == 2

\* the schema the callers share: one checked column, strict
SharedSchema ==
    DataFrameSchema(
        [columns |->
            <<Entry("a", Column([dtype |-> "int",
                     checks |-> <<Check("gt", NoGroupby)>>]).col)>>,
         strict |-> "True"]).obj

SharedContainers ==
    {Container(<<"a">>, {}, {}),
     Container(<<"a", "extra">>, {<<"a", "gt">>}, {})}

InitConcurrent == InitValidation(1..MaxCallers, {SharedSchema})

NextConcurrent ==
    \E c \in 1..MaxCallers :
        \/ StartValidate(c, SharedContainers)
        \/ Evaluate(c)
        \/ Finish(c)

SpecConcurrent == InitConcurrent /\ [][NextConcurrent]_vars

(***************************************************************************)
(* Attribute sessions: a DataFrameSchema or a MultiIndex is constructed,    *)
(* then its unique and coerce properties are assigned and read             *)
(***************************************************************************)
\* the unique property read
unique(schema) == schema._unique

\* the unique setter: a string becomes a one-element list
set_unique(h, self, value) ==
    Return([h EXCEPT ![self]._unique =
               IF value.kind = "str" THEN UniqueList(<<value.key>>) ELSE value],
           self)

\* the coerce property read from the schema's own flag alone
coerce_own_flag(schema) == schema._coerce

\* the coerce property read: of a MultiIndex, its own flag or any member's;
\* of a DataFrameSchema, its own flag or its DataType's auto_coerce
coerce(schema) ==
    IF schema.kind = "MultiIndex"
    THEN schema._coerce \/ \E i \in DOMAIN schema.indexes : schema.indexes[i].coerce
    ELSE IF schema.dtype.kind = "DataType"
    THEN schema.dtype.auto_coerce \/ schema._coerce
    ELSE schema._coerce

\* the coerce setter
set_coerce(h, self, value) == Return([h EXCEPT ![self]._coerce = value], self)

UniqueValues ==
    {NoUnique, UniqueStr("a"), UniqueList(<<"a">>), UniqueList(<<"a", "b">>)}

OptionInputs ==
    {[columns |-> <<Entry("a", ColA), Entry("b", ColB)>>,
      unique |-> u, dtype |-> d, coerce |-> c] :
        u \in UniqueValues,
        d \in {NoDtype, DataType(FALSE), DataType(TRUE)},
        c \in BOOLEAN}

\* DataFrameSchema(columns, unique=, dtype=, coerce=)
ConstructWithOptions ==
    \E kw \in OptionInputs :
        LET call == Call("DataFrameSchema", 0, kw)
            r    == DataFrameSchema(kw)
        IN  /\ heap = <<>>
            /\ last.call.op = "none"
            /\ heap' = IF r.exc = OK THEN <<Alloc(r.obj, 1)>> ELSE <<>>
            /\ origin' = IF r.exc = OK THEN <<call>> ELSE <<>>
            /\ last' = [call |-> call, exc |-> r.exc,
                        ret |-> IF r.exc = OK THEN 1 ELSE 0]
            /\ UNCHANGED runs

LevelInputs ==
    {[indexes |-> ix, kw |-> [coerce |-> c]] :
        ix \in SeqsUpTo({IdxI, IdxJ}, MaxLevels), c \in BOOLEAN}

\* MultiIndex(indexes, coerce=)
ConstructLevels ==
    \E x \in LevelInputs :
        LET call == Call("MultiIndex", 0, x)
            r    == MultiIndex(x.indexes, x.kw)
        IN  /\ heap = <<>>
            /\ last.call.op = "none"
            /\ heap' = IF r.exc = OK THEN <<r.obj>> ELSE <<>>
            /\ origin' = IF r.exc = OK THEN <<call>> ELSE <<>>
            /\ last' = [call |-> call, exc |-> r.exc,
                        ret |-> IF r.exc = OK THEN 1 ELSE 0]
            /\ UNCHANGED runs

\* schema.unique = value
AssignUnique ==
    \E value \in UniqueValues :
        /\ Len(heap) = 1
        /\ heap[1].kind = "DataFrameSchema"
        /\ heap' = set_unique(heap, 1, value).heap
        /\ last' = [call |-> Call("unique.setter", 1, value), exc |-> OK,
                    ret |-> 1]
        /\ UNCHANGED <<origin, runs>>

\* schema.coerce = value
AssignCoerce ==
    \E value \in BOOLEAN :
        /\ Len(heap) = 1
        /\ heap' = set_coerce(heap, 1, value).heap
        /\ last' = [call |-> Call("coerce.setter", 1, value), exc |-> OK,
                    ret |-> 1]
        /\ UNCHANGED <<origin, runs>>

NextAttrs ==
    \/ ConstructWithOptions
    \/ ConstructLevels
    \/ AssignUnique
    \/ AssignCoerce

SpecAttrs == InitCtor /\ [][NextAttrs]_vars

(***************************************************************************)
(* Check-info sessions: a BaseCheckInfo is constructed, then to_check is    *)
(* called on it; heap[1] is the check info, the Checks it made follow       *)
(***************************************************************************)
\* a plain function named n, and a callable object of class c, which has no
\* __name__
Function(n) == [has_name |-> TRUE, name |-> n, class |-> "function"]

CallableObject(c) == [has_name |-> FALSE, name |-> None, class |-> c]

\* BaseCheckInfo.__init__(check_fn, **check_kwargs)
BaseCheckInfo(check_fn, check_kwargs) ==
    [kind |-> "BaseCheckInfo", check_fn |-> check_fn,
     check_kwargs |-> check_kwargs]

\* Check(_adapter, name=name, **kwargs), _adapter calling check_fn with
\* model_cls
CheckOf(check_fn, model_cls, name, kwargs) ==
    [kind |-> "Check", check_fn |-> check_fn, model_cls |-> model_cls,
     name |-> name, kwargs |-> kwargs]

\* BaseCheckInfo.to_check(model_cls): check_kwargs.pop("name", None), the
\* function's name when that is falsy, then Check(..., **self.check_kwargs)
to_check(h, self, model_cls) ==
    LET info   == h[self]
        given  == Get(info.check_kwargs, "name", None)
        popped == [f \in (DOMAIN info.check_kwargs) \ {"name"} |->
                      info.check_kwargs[f]]
        name   == IF Truthy(given) THEN given
                  ELSE IF info.check_fn.has_name THEN info.check_fn.name
                  ELSE info.check_fn.class
        h1     == [h EXCEPT ![self].check_kwargs = popped]
    IN  Return(Append(h1, CheckOf(info.check_fn, model_cls, name, popped)),
               Len(h1) + 1)

CheckInfoInputs ==
    {[check_fn |-> fn, check_kwargs |-> KwMerge(n, kw)] :
        fn \in {Function("fn"), CallableObject("Pred")},
        n  \in {NoKw, [name |-> "custom"], [name |-> ""], [name |-> None]},
        kw \in {NoKw, [element_wise |-> TRUE],
                [element_wise |-> FALSE, error |-> "bad"]}}

ConstructCheckInfo ==
    \E x \in CheckInfoInputs :
        LET call == Call("BaseCheckInfo", 0, x)
        IN  /\ heap = <<>>
            /\ last.call.op = "none"
            /\ heap' = <<BaseCheckInfo(x.check_fn, x.check_kwargs)>>
            /\ origin' = <<call>>
            /\ last' = [call |-> call, exc |-> OK, ret |-> 1]
            /\ UNCHANGED runs

\* info.to_check(model_cls)
ToCheck ==
    \E model_cls \in {"ModelA", "ModelB"} :
        LET call == Call("to_check", 1, model_cls)
            r    == to_check(heap, 1, model_cls)
        IN  /\ heap # <<>>
            /\ heap[1].kind = "BaseCheckInfo"
            /\ Len(heap) < MaxObjs
            /\ heap' = r.heap
            /\ origin' = Append(origin, call)
            /\ last' = [call |-> call, exc |-> r.exc, ret |-> r.ret]
            /\ UNCHANGED runs

NextCheckInfo ==
    \/ ConstructCheckInfo
    \/ ToCheck

SpecCheckInfo == InitCtor /\ [][NextCheckInfo]_vars

(***************************************************************************)
(* pyspark type sessions: calls of supported_types() and is_table(obj).     *)
(* heap[1] is the module with the lru_cache of supported_types, the         *)
(* outcomes of the calls follow                                             *)
(***************************************************************************)
\* the pyspark DataFrame class
DataFrame == "pyspark.sql.DataFrame"

\* an object: its class and the classes it is an instance of
Instance(class, bases) == [class |-> class, mro |-> {class, "object"} \cup bases]

Objects ==
    {Instance(DataFrame, {}),
     Instance("MyFrame", {DataFrame}),
     Instance("pandas.DataFrame", {}),
     Instance("pandas.Series", {}),
     Instance("int", {}),
     Instance("bool", {"int"}),
     Instance("str", {}),
     Instance("NoneType", {}),
     Instance("list", {}),
     Instance("Column", {})}

\* the NamedTuple SupportedTypes called with positional arguments: its four
\* fields have no defaults
SupportedTypes(args) ==
    IF Len(args) # 4
    THEN [exc |-> "TypeError"]
    ELSE [exc |-> OK,
          val |-> [table_types |-> args[1], field_types |-> args[2],
                   index_types |-> args[3], multiindex_types |-> args[4]]]

\* supported_types(): the cached record, or the record built from
\* table_types and cached; lru_cache keeps no raised exception
supported_types(h) ==
    IF h[1].cache # <<>>
    THEN [heap |-> h, exc |-> OK, val |-> h[1].cache[1]]
    ELSE LET table_types == Append(<<DataFrame>>, DataFrame)
             made        == SupportedTypes(<<table_types>>)
         IN  IF made.exc # OK
             THEN [heap |-> h, exc |-> made.exc]
             ELSE [heap |-> [h EXCEPT ![1].cache = <<made.val>>],
                   exc |-> OK, val |-> made.val]

\* is_table(obj): isinstance(obj, supported_types().table_types)
is_table(h, obj) ==
    LET st == supported_types(h)
    IN  IF st.exc # OK
        THEN st
        ELSE [heap |-> st.heap, exc |-> OK,
              val  |-> \E i \in DOMAIN st.val.table_types :
                          st.val.table_types[i] \in obj.mro]

\* the call ended as r: its outcome is kept after the module
Outcome(call, r) ==
    LET o == IF r.exc = OK
             THEN [kind |-> "Outcome", call |-> call, exc |-> OK, val |-> r.val]
             ELSE [kind |-> "Outcome", call |-> call, exc |-> r.exc]
    IN  /\ heap' = Append(r.heap, o)
        /\ origin' = Append(origin, call)
        /\ last' = [call |-> call, exc |-> r.exc, ret |-> Len(r.heap) + 1]
        /\ UNCHANGED runs

\* the module is imported, nothing is cached
InitTypes ==
    /\ heap = <<[kind |-> "pandera.api.pyspark.types", cache |-> <<>>]>>
    /\ origin = <<Call("import", 0, <<>>)>>
    /\ last = [call |-> Call("import", 0, <<>>), exc |-> OK, ret |-> 1]
    /\ runs = <<>>

CallSupportedTypes ==
    /\ Len(heap) < MaxObjs
    /\ Outcome(Call("supported_types", 1, <<>>), supported_types(heap))

CallIsTable ==
    \E obj \in Objects :
        /\ Len(heap) < MaxObjs
        /\ Outcome(Call("is_table", 1, obj), is_table(heap, obj))

NextTypes ==
    \/ CallSupportedTypes
    \/ CallIsTable

SpecTypes == InitTypes /\ [][NextTypes]_vars

(***************************************************************************)
(* Properties                                                              *)
(***************************************************************************)
TransformOps ==
    {"add_columns", "remove_columns", "update_column", "update_columns",
     "rename_columns", "select_columns", "set_index", "reset_index"}

\* the latest call was a transform and it returned
Returned == last.call.op \in TransformOps /\ last.exc = OK

\* receiver and result of the latest call
Recv == heap[last.call.self]

Result == heap[last.ret]

\* a column mapping without the identities of its Column objects
Val(d) == [i \in DOMAIN d |-> [key |-> d[i].key, col |-> d[i].col]]

\* everything of a schema but its columns
Rest(s) == [s EXCEPT !.columns = <<>>]

\* the column keys a call names
GivenKeys(call) ==
    CASE call.op = "remove_columns" -> Range(call.args)
      [] call.op = "select_columns" -> Range(call.args)
      [] call.op = "update_column"  -> {call.args.column_name}
      [] call.op = "update_columns" -> KeysOf(call.args)
      [] call.op = "rename_columns" -> KeysOf(call.args)
      [] call.op = "set_index"      -> Range(call.args.keys.items)
      [] OTHER                      -> {}

\* C1: a transform call, whether it returns or raises, and whatever calls
\* came before it, leaves every schema object that existed before the call,
\* the receiver among them, exactly as it was: column keys, their order, every
\* column attribute, the Column objects, the index, the checks, the options.
C1_TransformsLeaveReceiver ==
    [][last'.call.op \in TransformOps =>
          /\ Len(heap') >= Len(heap)
          /\ \A i \in 1..Len(heap) : heap'[i] = heap[i]]_vars

\* a transform called on the result of a transform has returned a schema
\* with other columns than its receiver's, which is still on the heap
C1_Witness ==
    /\ Len(heap) = 3
    /\ last.call.op = "rename_columns"
    /\ last.call.self = 2
    /\ last.ret = 3
    /\ KeySeq(heap[3].columns) # KeySeq(heap[2].columns)

\* C2: every transform that returns, returns a schema object that is not its
\* receiver.
C2_ResultIsNotReceiver == Returned => last.ret # last.call.self

\* C3: a transform given a column key that its receiver does not declare
\* raises SchemaInitError and returns nothing.
C3_UndeclaredKeyIsSchemaInitError ==
    (/\ last.call.op \in TransformOps
     /\ GivenKeys(last.call) \ KeysOf(Recv.columns) # {})
    => (last.exc = "SchemaInitError" /\ last.ret = 0)

\* C4: remove_columns(keys) either raises SchemaInitError, when some key is
\* not a column of the receiver, or returns the receiver's columns minus the
\* keys, in the receiver's order, with everything else unchanged.
C4_RemoveColumnsTwoOutcomes ==
    last.call.op = "remove_columns" =>
        IF Range(last.call.args) \ KeysOf(Recv.columns) # {}
        THEN last.exc = "SchemaInitError"
        ELSE /\ last.exc = OK
             /\ Val(Result.columns) =
                   Val(SelectSeq(Recv.columns,
                                 LAMBDA e : e.key \notin Range(last.call.args)))
             /\ Rest(Result) = Rest(Recv)

\* the entries of a rename_dict that are not identities
Renaming(rename_dict) == SelectSeq(rename_dict, LAMBDA e : e.key # e.val)

\* rename_dict would make two columns of the schema s share a key
Collides(rename_dict, s) ==
    \/ \E i \in DOMAIN Renaming(rename_dict) :
          HasKey(s.columns, Renaming(rename_dict)[i].val)
    \/ \E i, j \in DOMAIN Renaming(rename_dict) :
          /\ i # j
          /\ Renaming(rename_dict)[i].val = Renaming(rename_dict)[j].val

\* C5: when rename_columns returns, the result has as many columns as the
\* receiver, each renamed key holds its column at the same position under the
\* new key, the other columns are unchanged; a rename_dict of declared keys
\* that would make two columns share a key raises SchemaInitError.
C5_RenameKeepsColumnsApart ==
    last.call.op = "rename_columns" =>
        /\ last.exc = OK =>
              /\ Len(Result.columns) = Len(Recv.columns)
              /\ \A i \in DOMAIN Recv.columns :
                    LET e == Recv.columns[i]
                    IN  IF HasKey(Renaming(last.call.args), e.key)
                        THEN /\ Result.columns[i].key =
                                   NewName(last.call.args, e.key)
                             /\ Result.columns[i].col =
                                   set_name(e.col, NewName(last.call.args, e.key))
                        ELSE /\ Result.columns[i].key = e.key
                             /\ Result.columns[i].col = e.col
        /\ (/\ KeysOf(last.call.args) \subseteq KeysOf(Recv.columns)
            /\ Collides(last.call.args, Recv))
           => last.exc = "SchemaInitError"

\* the latest call is reset_index() on the result of set_index([c]) of a
\* schema without index
RoundTrip ==
    /\ last.call.op = "reset_index"
    /\ last.call.args.level.none
    /\ ~last.call.args.drop
    /\ origin[last.call.self].op = "set_index"
    /\ origin[last.call.self].args.keys.list
    /\ Len(origin[last.call.self].args.keys.items) = 1
    /\ origin[last.call.self].args.drop
    /\ ~origin[last.call.self].args.append
    /\ heap[origin[last.call.self].self].index.kind = "None"

\* C6: for a schema S without index and a declared column c,
\* S.set_index([c]).reset_index() returns a schema without index that has
\* column c with the dtype, checks, nullable and unique of S's column c, and
\* every other column of S unchanged.
C6_SetResetRoundTrip ==
    RoundTrip =>
        LET S == heap[origin[last.call.self].self]
            c == origin[last.call.self].args.keys.items[1]
        IN  /\ last.exc = OK
            /\ Result.index.kind = "None"
            /\ KeysOf(Result.columns) = KeysOf(S.columns)
            /\ \A i \in DOMAIN S.columns :
                  LET old == S.columns[i].col
                      new == Lookup(Result.columns, S.columns[i].key).col
                  IN  IF S.columns[i].key = c
                      THEN /\ new.dtype = old.dtype
                           /\ new.checks = old.checks
                           /\ new.nullable = old.nullable
                           /\ new.unique = old.unique
                      ELSE new = old

\* the levels of an index
Levels(index) ==
    IF index.kind = "None" THEN <<>>
    ELSE IF index.kind = "MultiIndex" THEN index.indexes
    ELSE <<index>>

\* dtype, checks, nullable, unique and coerce of a column or index level
Five(x) ==
    [dtype |-> x.dtype, checks |-> x.checks, nullable |-> x.nullable,
     unique |-> x.unique, coerce |-> x.coerce]

\* C7: each index level set_index creates has the dtype, checks, nullable,
\* unique and coerce of the column it is made of, and each column reset_index
\* creates has those of the index level it is made of, with required true and
\* regex false.
C7_ConversionKeepsFive ==
    /\ (Returned /\ last.call.op = "set_index") =>
          LET lv == Levels(Result.index)
          IN  \A k \in Range(last.call.args.keys.items) :
                 \E i \in DOMAIN lv :
                    /\ i > Len(lv) - Len(last.call.args.keys.items)
                    /\ lv[i].name = k
                    /\ Five(lv[i]) = Five(Lookup(Recv.columns, k).col)
    /\ (Returned /\ last.call.op = "reset_index" /\ ~last.call.args.drop
        /\ last.ret # last.call.self) =>
          \A k \in (IF last.call.args.level.none
                    THEN Range(names(Recv.index))
                    ELSE Range(last.call.args.level.items)) :
             /\ HasKey(Result.columns, k)
             /\ \E i \in DOMAIN Levels(Recv.index) :
                   /\ Levels(Recv.index)[i].name = k
                   /\ Five(Lookup(Result.columns, k).col) =
                         Five(Levels(Recv.index)[i])
             /\ Lookup(Result.columns, k).col.required
             /\ ~Lookup(Result.columns, k).col.regex

\* BaseDataFrameSchema.__eq__: the attributes but _IS_INFERRED are equal,
\* the column mappings as dicts, the checks of a column as sets
CompareDict(s) ==
    [f \in (DOMAIN s) \ {"_IS_INFERRED"} |->
        IF f = "columns"
        THEN {[key |-> s.columns[i].key,
               col |-> [s.columns[i].col EXCEPT !.checks = Range(@)]] :
                  i \in DOMAIN s.columns}
        ELSE s[f]]

\* the latest call is remove_columns(keys of X) on the result of
\* add_columns(X), the keys of X not declared in the receiver of add_columns
AddThenRemove ==
    /\ last.call.op = "remove_columns"
    /\ origin[last.call.self].op = "add_columns"
    /\ last.call.args = KeySeq(origin[last.call.self].args)
    /\ last.call.args # <<>>
    /\ KeysOf(origin[last.call.self].args)
          \cap KeysOf(heap[origin[last.call.self].self].columns) = {}

\* C8: S.add_columns(X).remove_columns(keys of X), for keys of X that S does
\* not declare, returns a schema equal to S: the same column keys in the same
\* order with equal columns, the same index, checks and options.
C8_AddRemoveIsIdentity ==
    AddThenRemove =>
        LET S == heap[origin[last.call.self].self]
        IN  /\ last.exc = OK
            /\ Val(Result.columns) = Val(S.columns)
            /\ Rest(Result) = Rest(S)
            /\ CompareDict(Result) = CompareDict(S)

\* two added columns have been removed again from a schema with an index
C8_Witness ==
    /\ AddThenRemove
    /\ Len(last.call.args) = 2
    /\ last.exc = OK
    /\ heap[origin[last.call.self].self].index.kind = "Index"

\* C9: DataFrameSchema(strict=v) raises SchemaInitError and makes no schema
\* when v is none of True, False and "filter" (1 and 0 are True and False to
\* Python's ==); a construction that succeeds stores v as strict, and with
\* one of the three values only an invalid group-by reference makes it fail.
C9_StrictIsValidated ==
    last.call.op = "__init__" =>
        LET v == Get(last.call.args, "strict", "False")
        IN  /\ v \notin {"True", "False", "filter", "#1", "#0"}
               => (last.exc = "SchemaInitError" /\ heap = <<>>)
            /\ last.exc = OK => heap[1].strict = v
            /\ (/\ v \in {"True", "False", "filter"}
                /\ \A i \in DOMAIN last.call.args.columns :
                      \A j \in DOMAIN last.call.args.columns[i].col.checks :
                         last.call.args.columns[i].col.checks[j].groupby.kind
                            # "list")
               => last.exc = OK

\* a construction with columns and a strict that is no valid value has raised
C9_Witness ==
    /\ last.call.op = "__init__"
    /\ last.call.args.columns # <<>>
    /\ "strict" \in DOMAIN last.call.args
    /\ last.call.args.strict = "exact"
    /\ last.exc = "SchemaInitError"

\* some check of some column of the constructor arguments kw has a group-by
\* list that names a key kw does not declare
UndeclaredGroupby(kw) ==
    \E i \in DOMAIN kw.columns :
       \E j \in DOMAIN kw.columns[i].col.checks :
          LET g == kw.columns[i].col.checks[j].groupby
          IN  /\ g.kind = "list"
              /\ \E m \in DOMAIN g.keys :
                    \A n \in DOMAIN kw.columns : kw.columns[n].key # g.keys[m]

\* C10: DataFrameSchema(columns) raises SchemaInitError when a check of a
\* column has a group-by list that names an undeclared key; with every
\* group-by absent, callable, or naming declared keys only, construction
\* fails for no other reason than strict.
C10_GroupbyIsValidated ==
    last.call.op = "__init__" =>
        /\ UndeclaredGroupby(last.call.args)
              => (last.exc = "SchemaInitError" /\ heap = <<>>)
        /\ (/\ ~UndeclaredGroupby(last.call.args)
            /\ Get(last.call.args, "strict", "False")
                  \in {"True", "False", "filter"})
              => (last.exc = OK /\ Val(heap[1].columns) =
                        Val(_columns_renamed(last.call.args.columns)))

\* a construction with a group-by list of declared keys has succeeded
C10_Witness ==
    /\ last.call.op = "__init__"
    /\ last.exc = OK
    /\ \E i \in DOMAIN heap[1].columns :
          \E j \in DOMAIN heap[1].columns[i].col.checks :
             heap[1].columns[i].col.checks[j].groupby.kind = "list"

\* the key MultiIndex.__init__ files member i of indexes under
LevelKey(indexes, i) ==
    IF indexes[i].name = None THEN PosKey(i - 1) ELSE indexes[i].name

\* C11: MultiIndex(indexes, ordered) raises SchemaInitError when a member is
\* not an Index, and when ordered is false and a member has no name;
\* otherwise it is constructed, and each member is filed under its name or,
\* without a name, under its position, with the member's dtype, checks,
\* nullable and unique (the last member of a name, when members share one).
C11_MultiIndexNaming ==
    last.call.op = "MultiIndex" =>
        LET indexes == last.call.args.indexes
            ordered == Get(last.call.args.kw, "ordered", TRUE)
            allIndex == \A i \in DOMAIN indexes : IsIndex(indexes[i])
            unnamed == \E i \in DOMAIN indexes : indexes[i].name = None
        IN  /\ ~allIndex => (last.exc = "SchemaInitError" /\ heap = <<>>)
            /\ (allIndex /\ ~ordered /\ unnamed)
                  => (last.exc = "SchemaInitError" /\ heap = <<>>)
            /\ (allIndex /\ (ordered \/ ~unnamed)) =>
                  /\ last.exc = OK
                  /\ heap[1].indexes = indexes
                  /\ KeysOf(heap[1].columns) =
                        {LevelKey(indexes, i) : i \in DOMAIN indexes}
                  /\ \A i \in DOMAIN indexes :
                        (\A j \in DOMAIN indexes :
                            j > i => LevelKey(indexes, j) # LevelKey(indexes, i))
                        => LET c == Lookup(heap[1].columns,
                                           LevelKey(indexes, i)).col
                           IN  /\ c.dtype = indexes[i].dtype
                               /\ c.checks = indexes[i].checks
                               /\ c.nullable = indexes[i].nullable
                               /\ c.unique = indexes[i].unique

\* an ordered MultiIndex with a named, an unnamed and a named member has been
\* constructed: the unnamed one is filed under its position 1
C11_Witness ==
    /\ last.call.op = "MultiIndex"
    /\ last.exc = OK
    /\ Len(last.call.args.indexes) = 3
    /\ last.call.args.indexes[2].name = None
    /\ last.call.args.indexes[1].name # None
    /\ KeySeq(heap[1].columns) = <<"i", "#1", "j">>

\* the schema objects of the session
Schemas == {i \in DOMAIN heap : "columns" \in DOMAIN heap[i]}

\* C12: Column(name, regex=True) raises, and makes no column, when name is
\* neither None, a string nor a tuple of strings, and a constructed column
\* holds the name and regex it was given; in every schema of the session,
\* every column with regex true has a name that is a string or a tuple of
\* strings.
C12_RegexNameCompatible ==
    /\ last.call.op = "Column" =>
          LET name  == Get(last.call.args, "name", None)
              regex == Get(last.call.args, "regex", FALSE)
          IN  /\ (regex /\ name # None /\ ~IsStr(name))
                    => (last.exc = "ValueError" /\ heap = <<>>)
              /\ last.exc = OK =>
                    (heap[1].name = name /\ heap[1].regex = regex)
    /\ \A s \in Schemas :
          \A i \in DOMAIN heap[s].columns :
             heap[s].columns[i].col.regex => IsStr(heap[s].columns[i].col.name)

\* the latest call is an update that supplies a 'name' property for a column
NameSupplied ==
    \/ /\ last.call.op = "update_column"
       /\ "name" \in DOMAIN last.call.args.kwargs
    \/ /\ last.call.op = "update_columns"
       /\ \E i \in DOMAIN last.call.args :
             "name" \in DOMAIN last.call.args[i].kw

\* C13: update_column and update_columns raise SchemaInitError when a 'name'
\* property is supplied, whatever its value, and a returning update leaves
\* every column under its key with its name.
C13_UpdateKeepsNames ==
    last.call.op \in {"update_column", "update_columns"} =>
        /\ NameSupplied => last.exc = "SchemaInitError"
        /\ last.exc = OK =>
              /\ KeySeq(Result.columns) = KeySeq(Recv.columns)
              /\ \A i \in DOMAIN Recv.columns :
                    Result.columns[i].col.name = Recv.columns[i].col.name

\* the positions of the values equal to values[i]
Occurrences(values, i) == {j \in DOMAIN values : values[j] = values[i]}

\* C14: a duplicate report under 'exclude_first' flags every occurrence of a
\* repeated value but its first, under 'exclude_last' every occurrence but
\* its last, under 'all' every occurrence of a repeated value (on [1, 1, 2]:
\* the second 1 only, and both 1s, never the 2); the three settings map to
\* keep 'first', 'last' and False, any other setting raises ValueError.
C14_DuplicateReporting ==
    last.call.op = "duplicated" =>
        LET values == last.call.args.values
            setting == last.call.args.unique
            flags  == last.ret.flags
            occ(i) == Occurrences(values, i)
        IN  /\ setting \notin {"exclude_first", "exclude_last", "all"}
                  => last.exc = "ValueError"
            /\ setting = "exclude_first" =>
                  /\ last.exc = OK /\ last.ret.keep = "first"
                  /\ \A i \in DOMAIN values :
                        flags[i] <=> (\E j \in occ(i) : j < i)
            /\ setting = "exclude_last" =>
                  /\ last.exc = OK /\ last.ret.keep = "last"
                  /\ \A i \in DOMAIN values :
                        flags[i] <=> (\E j \in occ(i) : j > i)
            /\ setting = "all" =>
                  /\ last.exc = OK /\ last.ret.keep = "False"
                  /\ \A i \in DOMAIN values :
                        flags[i] <=> Cardinality(occ(i)) > 1
            /\ (values = <<1, 1, 2>> /\ setting = "exclude_first")
                  => flags = <<FALSE, TRUE, FALSE>>
            /\ (values = <<1, 1, 2>> /\ setting = "exclude_last")
                  => flags = <<TRUE, FALSE, FALSE>>
            /\ (values = <<1, 1, 2>> /\ setting = "all")
                  => flags = <<TRUE, TRUE, FALSE>>

\* the report of [1, 1, 2] under 'exclude_first' flags the second 1
C14_Witness ==
    /\ last.call.op = "duplicated"
    /\ last.call.args.values = <<1, 1, 2>>
    /\ last.call.args.unique = "exclude_first"
    /\ last.ret.flags = <<FALSE, TRUE, FALSE>>

\* C20: when set_index(keys, drop, append) returns, the levels of the new
\* index are the levels of the receiver's index (none when it has no index
\* or append is false) followed by one level per key, in the order of keys;
\* one level makes an Index, two or more a MultiIndex; with drop the keyed
\* columns are gone from the columns and the others stay, without drop the
\* columns are the receiver's.
C20_SetIndexBuildsLevels ==
    (Returned /\ last.call.op = "set_index") =>
        LET keys == last.call.args.keys
            kept == IF Recv.index.kind = "None" \/ ~last.call.args.append
                    THEN <<>>
                    ELSE Levels(Recv.index)
            new  == Levels(Result.index)
            n    == Len(new) - Len(kept)
        IN  /\ n = (IF keys.list THEN Len(keys.items)
                    ELSE Cardinality(Range(keys.items)))
            /\ SubSeq(new, 1, Len(kept)) = kept
            /\ keys.list =>
                  [i \in 1..n |-> new[Len(kept) + i].name] = keys.items
            /\ {new[Len(kept) + i].name : i \in 1..n} = Range(keys.items)
            /\ Len(new) = 1 => Result.index.kind = "Index"
            /\ Len(new) >= 2 => Result.index.kind = "MultiIndex"
            /\ Val(Result.columns) =
                  Val(SelectSeq(Recv.columns,
                          LAMBDA e : ~last.call.args.drop
                                     \/ e.key \notin Range(keys.items)))

\* set_index has appended a key to a MultiIndex of two levels and dropped
\* the keyed column
C20_Witness ==
    /\ Returned
    /\ last.call.op = "set_index"
    /\ last.call.args.append
    /\ last.call.args.drop
    /\ Recv.index.kind = "MultiIndex"
    /\ Len(Levels(Result.index)) = 3
    /\ Len(Result.columns) < Len(Recv.columns)


\* the indices of the pipeline's items that fail on the container
Failing(pipeline, container) ==
    {i \in DOMAIN pipeline : Fails(pipeline[i], container)}

\* C15: a finished lazy validation has evaluated every item of the pipeline
\* and called every check predicate, whatever failed before; with failures
\* it raises one SchemaErrors holding exactly one entry per failure (three
\* for two columns failing one check each and one missing required
\* column) and returns nothing; without failures it raises nothing and
\* returns the container.
C15_LazyCollectsAll ==
    LET run == runs[1]
    IN  (run.pc = "done" /\ run.lazy) =>
          LET pipeline == Pipeline(heap[run.schema], run.container)
              failing  == Failing(pipeline, run.container)
          IN  /\ run.evaluated = DOMAIN pipeline
              /\ run.invoked =
                    Cardinality({i \in DOMAIN pipeline : IsPredicate(pipeline[i])})
              /\ failing # {} =>
                    /\ run.exc = "SchemaErrors"
                    /\ run.ret = <<>>
                    /\ Len(run.errors) = Cardinality(failing)
                    /\ Range(run.errors) = {pipeline[i] : i \in failing}
              /\ failing = {} =>
                    /\ run.exc = OK
                    /\ run.errors = <<>>
                    /\ Len(run.ret) = 1
                    /\ run.ret[1].bad = run.container.bad
              /\ ( /\ heap[run.schema].strict = "False"
                   /\ run.container = Container(<<"b", "a">>,
                          {<<"a", "gt">>, <<"b", "c2">>}, {}) )
                    => Len(run.errors) = 3

\* two columns each failing one check and a missing required column were
\* reported by a lazy validation
C15_Witness ==
    /\ runs[1].pc = "done"
    /\ runs[1].lazy
    /\ runs[1].exc = "SchemaErrors"
    /\ Range(runs[1].errors) = {Item("column", "a", "gt"),
                                Item("column", "b", "c2"),
                                Item("required", "c", None)}

\* C16: a finished eager validation that failed raised a single SchemaError
\* for the first failing item in pipeline order, evaluated exactly the
\* items up to it, and called exactly the check predicates up to it: when
\* the failure is a check, the number of predicates called is that check's
\* position among the checks.
C16_EagerStopsAtFirstFailure ==
    LET run == runs[1]
    IN  (run.pc = "done" /\ ~run.lazy) =>
          LET pipeline == Pipeline(heap[run.schema], run.container)
              failing  == Failing(pipeline, run.container)
          IN  IF failing = {}
              THEN run.exc = OK /\ run.evaluated = DOMAIN pipeline
              ELSE LET first == CHOOSE i \in failing : \A j \in failing : i <= j
                   IN  /\ run.exc = "SchemaError"
                       /\ run.errors = <<pipeline[first]>>
                       /\ run.ret = <<>>
                       /\ run.evaluated = 1..first
                       /\ run.invoked =
                             Cardinality({i \in 1..first : IsPredicate(pipeline[i])})

\* an eager validation stopped at a failing check that has passing checks
\* before it and checks after it
C16_Witness ==
    /\ runs[1].pc = "done"
    /\ ~runs[1].lazy
    /\ runs[1].exc = "SchemaError"
    /\ runs[1].errors = <<Item("column", "b", "c2")>>
    /\ runs[1].invoked = 3
    /\ Item("table", None, "t1") \in
          Range(Pipeline(heap[1], runs[1].container))

\* the container columns the schema does not declare
Undeclared(schema, container) ==
    {l \in Range(container.labels) : ~HasKey(schema.columns, l)}

\* C17: in a finished validation, with strict=True every undeclared column
\* of the container makes the call fail, eagerly with a SchemaError naming
\* an undeclared column, lazily with an entry naming each; with
\* strict='filter' no failure names an undeclared column and a returned
\* container has the declared columns only; with strict=False no failure
\* names an undeclared column and a returned container is the one passed
\* in.  In all three a missing required column makes the call fail.
C17_Strictness ==
    LET run == runs[1]
    IN  run.pc = "done" =>
          LET schema == heap[run.schema]
              extra  == Undeclared(schema, run.container)
              named  == {e.column : e \in Range(run.errors)}
          IN  /\ (schema.strict = "True" /\ extra # {}) =>
                    /\ run.exc # OK
                    /\ run.ret = <<>>
                    /\ ~run.lazy => /\ run.exc = "SchemaError"
                                    /\ run.errors[1].stage = "strict"
                                    /\ run.errors[1].column \in extra
                    /\ run.lazy => extra \subseteq named
              /\ schema.strict = "filter" =>
                    /\ named \cap extra = {}
                    /\ run.exc = OK =>
                          /\ Range(run.ret[1].labels) \cap extra = {}
                          /\ run.ret[1].labels =
                                SelectSeq(run.container.labels,
                                          LAMBDA l : l \notin extra)
              /\ schema.strict = "False" =>
                    /\ named \cap extra = {}
                    /\ run.exc = OK => run.ret = <<run.container>>
              /\ (\E e \in Range(schema.columns) :
                      e.col.required /\ e.key \notin Range(run.container.labels))
                    => run.exc # OK /\ run.ret = <<>>

\* a container with the undeclared column "extra" was validated under
\* strict='filter' and returned without it
C17_Witness ==
    /\ runs[1].pc = "done"
    /\ heap[1].strict = "filter"
    /\ "extra" \in Range(runs[1].container.labels)
    /\ runs[1].exc = OK
    /\ runs[1].ret = <<Container(<<"c", "b", "a">>, {}, {})>>

\* the place of a declared column's failure in the declaration: the column's
\* place, then the check's place (0 for the column's absence)
DeclaredPlace(schema, item) ==
    LET i == CHOOSE k \in DOMAIN schema.columns :
                 schema.columns[k].key = item.column
        checks == schema.columns[i].col.checks
    IN  <<i, IF item.stage = "required" THEN 0
             ELSE CHOOSE j \in DOMAIN checks : checks[j].name = item.check>>

RunAlone(schema, container, lazy) ==
    LET pipeline == Pipeline(schema, container)
        failing  == Failing(pipeline, container)
        inorder  == SelectSeq([i \in DOMAIN pipeline |-> i],
                              LAMBDA i : i \in failing)
    IN  IF failing = {}
        THEN [exc |-> OK, errors |-> <<>>,
              ret |-> <<Filtered(schema, container)>>,
              warned |-> schema._IS_INFERRED]
        ELSE IF lazy
        THEN [exc |-> "SchemaErrors",
              errors |-> Aggregate(schema, pipeline, inorder),
              ret |-> <<>>, warned |-> schema._IS_INFERRED]
        ELSE [exc |-> "SchemaError", errors |-> <<pipeline[inorder[1]]>>,
              ret |-> <<>>, warned |-> schema._IS_INFERRED]

\* C19: no step of any validate call, eager or lazy, succeeding or failing,
\* in place or not, changes the schema, and every caller's finished call
\* has the outcome it has when run alone, however the calls of the callers
\* interleave.
C19_SchemaReadOnly ==
    /\ [][heap' = heap]_vars
    /\ [](\A c \in DOMAIN runs :
             runs[c].pc = "done" =>
                LET alone == RunAlone(heap[runs[c].schema], runs[c].container,
                                      runs[c].lazy)
                IN  /\ runs[c].exc = alone.exc
                    /\ runs[c].errors = alone.errors
                    /\ runs[c].ret = alone.ret
                    /\ runs[c].warned = alone.warned)

\* one caller's lazy call has failed while another caller's eager, in-place
\* call on another container is part-way through
C19_Witness ==
    /\ runs[1].pc = "done"
    /\ runs[1].lazy
    /\ ~runs[1].inplace
    /\ runs[1].exc = "SchemaErrors"
    /\ runs[2].pc = "run"
    /\ ~runs[2].lazy
    /\ runs[2].inplace
    /\ runs[2].evaluated # {}
    /\ runs[2].container # runs[1].container
    /\ heap[1]._IS_INFERRED


\* the levels reset_index is asked to take out of the receiver's index
Requested ==
    IF last.call.args.level.none
    THEN Range(names(Recv.index))
    ELSE Range(last.call.args.level.items)

\* C21: reset_index(level, drop) raises SchemaInitError when the receiver has
\* no index or a requested level is not a level of its index; otherwise it
\* returns a schema whose index holds the levels that were not requested,
\* each as it was (name, dtype, checks, nullable, unique, coerce), in order:
\* no index when none is left, an Index when one is left, a MultiIndex
\* otherwise; the requested levels are columns of the result unless drop.
C21_ResetIndexMovesRequestedLevels ==
    last.call.op = "reset_index" =>
        IF Recv.index.kind = "None"
        THEN last.exc = "SchemaInitError"
        ELSE IF Requested \ Range(names(Recv.index)) # {}
        THEN last.exc = "SchemaInitError"
        ELSE LET remaining == SelectSeq(Levels(Recv.index),
                                        LAMBDA x : x.name \notin Requested)
             IN  /\ last.exc = OK
                 /\ Len(remaining) = 0 => Result.index = NoIndex
                 /\ Len(remaining) = 1 => Result.index = remaining[1]
                 /\ Len(remaining) > 1 =>
                       /\ Result.index.kind = "MultiIndex"
                       /\ KeySeq(Result.index.columns) =
                             [i \in DOMAIN remaining |-> remaining[i].name]
                       /\ Range(remaining) \subseteq Range(Result.index.indexes)
                 /\ KeysOf(Result.columns) =
                       IF last.call.args.drop
                       THEN KeysOf(Recv.columns)
                       ELSE KeysOf(Recv.columns) \cup Requested


\* C22: select_columns(keys) raises SchemaInitError when some key is not a
\* column of the receiver; otherwise it returns a schema whose columns are
\* the receiver's columns with a requested key, equal to the receiver's and
\* in the receiver's order, with the receiver's index, checks and options.
C22_SelectKeepsDeclarationOrder ==
    last.call.op = "select_columns" =>
        IF Range(last.call.args) \ KeysOf(Recv.columns) # {}
        THEN last.exc = "SchemaInitError" /\ last.ret = 0
        ELSE /\ last.exc = OK
             /\ KeysOf(Result.columns) = Range(last.call.args)
             /\ Val(Result.columns) =
                   Val(SelectSeq(Recv.columns,
                                 LAMBDA e : e.key \in Range(last.call.args)))
             /\ Rest(Result) = Rest(Recv)

\* two columns were selected in another order than the receiver declares
\* them in, from a schema with an index
C22_Witness ==
    /\ last.call.op = "select_columns"
    /\ last.call.args = <<"b", "a">>
    /\ last.exc = OK
    /\ KeySeq(Result.columns) = <<"a", "b">>
    /\ Recv.index.kind # "None"
    /\ Len(Recv.columns) > 2


\* C23: in every schema of a session, made by the constructor or returned by
\* a transform, each column's name is the key it is stored under.
C23_NameIsKey ==
    \A i \in DOMAIN heap :
       \A j \in DOMAIN heap[i].columns :
          heap[i].columns[j].col.name = heap[i].columns[j].key


\* C24: in every schema of a session whose index is a MultiIndex, the level
\* names the MultiIndex reports (names, read from indexes) are the keys of
\* its column mapping, in the same order.
C24_MultiIndexConsistent ==
    \A i \in DOMAIN heap :
       heap[i].index.kind = "MultiIndex" =>
          names(heap[i].index) = KeySeq(heap[i].index.columns)


\* the keys the list group-bys of the checks of the columns d refer to
GroupbyKeys(d) ==
    UNION {Range(check.groupby.keys) :
              check \in {x \in UNION {Range(d[i].col.checks) : i \in DOMAIN d} :
                            x.groupby.kind = "list"}}

\* C25: every transform that returns, returns a schema in which every list
\* group-by of every check names declared keys only, and add_columns does
\* return when the group-bys of the added columns name keys of the receiver
\* or of the added columns.
C25_GroupbyKeptByTransforms ==
    /\ Returned => GroupbyKeys(Result.columns) \subseteq KeysOf(Result.columns)
    /\ (/\ last.call.op = "add_columns"
        /\ GroupbyKeys(last.call.args) \subseteq
              KeysOf(Recv.columns) \cup KeysOf(last.call.args))
       => last.exc = OK


\* the constructor attributes of a column other than its name
ColumnAttributes ==
    {"dtype", "checks", "nullable", "unique", "report_duplicates", "coerce",
     "required", "regex", "title", "description", "default", "metadata",
     "drop_invalid_rows"}

\* the attributes the latest update names for the column under key k
Named(k) ==
    IF last.call.op = "update_column"
    THEN IF k = last.call.args.column_name
         THEN DOMAIN last.call.args.kwargs ELSE {}
    ELSE DOMAIN UpdateFor(last.call.args, k)

\* C26: when update_column or update_columns returns, the result has the
\* receiver's column keys in the receiver's order, and every attribute of
\* every column that the update does not name has the receiver's value;
\* update_columns({c: kw}) returns the columns update_column(c, **kw)
\* returns.
C26_UpdateChangesOnlyNamed ==
    (Returned /\ last.call.op \in {"update_column", "update_columns"}) =>
        /\ KeySeq(Result.columns) = KeySeq(Recv.columns)
        /\ \A i \in DOMAIN Recv.columns :
              \A f \in ColumnAttributes \ Named(Recv.columns[i].key) :
                 Result.columns[i].col[f] = Recv.columns[i].col[f]
        /\ (last.call.op = "update_columns" /\ Len(last.call.args) = 1) =>
              LET one == update_column(heap, last.call.self,
                                       last.call.args[1].key,
                                       last.call.args[1].kw)
              IN  /\ one.exc = OK
                  /\ Val(one.heap[one.ret].columns) = Val(Result.columns)


\* C27: the unique read from a DataFrameSchema is None or a list of column
\* keys, after construction and after every assignment; a single key given
\* as a string, to the constructor or in an assignment, reads back as the
\* list of that one key.
C27_UniqueNormalForm ==
    (Len(heap) = 1 /\ heap[1].kind = "DataFrameSchema") =>
        /\ unique(heap[1]).kind \in {"None", "list"}
        /\ (last.call.op = "DataFrameSchema"
            /\ last.call.args.unique.kind = "str")
              => unique(heap[1]) = UniqueList(<<last.call.args.unique.key>>)
        /\ (last.call.op = "unique.setter" /\ last.call.args.kind = "str")
              => unique(heap[1]) = UniqueList(<<last.call.args.key>>)

\* the coercion a schema has from its constructor arguments besides its own
\* flag: a member index with coerce, a table dtype with auto_coerce
Inherited ==
    IF origin[1].op = "MultiIndex"
    THEN \E i \in DOMAIN origin[1].args.indexes :
            origin[1].args.indexes[i].coerce
    ELSE /\ origin[1].args.dtype.kind = "DataType"
         /\ origin[1].args.dtype.auto_coerce

\* C29: the coerce read from a schema just constructed is its coerce
\* argument or the inherited coercion; an assignment to coerce changes the
\* schema's own flag and nothing else, and the coerce read after it is the
\* assigned value or the inherited coercion.
C29_CoerceIsDisjunction ==
    /\ [](/\ last.call.op = "DataFrameSchema" /\ last.exc = OK
             => coerce(heap[1]) = (last.call.args.coerce \/ Inherited)
          /\ last.call.op = "MultiIndex" /\ last.exc = OK
             => coerce(heap[1]) = (last.call.args.kw.coerce \/ Inherited))
    /\ [][last'.call.op = "coerce.setter" =>
             /\ coerce(heap'[1]) = (last'.call.args \/ Inherited)
             /\ [heap'[1] EXCEPT !._coerce = heap[1]._coerce] = heap[1]]_vars

\* false was assigned to the coerce of a schema whose table dtype has
\* auto_coerce and whose own flag was set, and coerce still reads true
C29_Witness ==
    /\ last.call.op = "coerce.setter"
    /\ last.call.args = FALSE
    /\ heap[1].kind = "DataFrameSchema"
    /\ origin[1].args.coerce
    /\ ~heap[1]._coerce
    /\ coerce(heap[1])


\* C28: every Check that to_check has made of a check info has the name
\* given in the info's keyword arguments, or the name of the predicate when
\* none was given, and the other keyword arguments, however many calls came
\* before; and the info's check_kwargs are the ones it was constructed with.
C28_ToCheckRepeatable ==
    (heap # <<>> /\ heap[1].kind = "BaseCheckInfo") =>
        LET given == origin[1].args.check_kwargs
            fn    == origin[1].args.check_fn
            name  == IF "name" \in DOMAIN given /\ Truthy(given.name)
                     THEN given.name
                     ELSE IF fn.has_name THEN fn.name ELSE fn.class
        IN  /\ heap[1].check_kwargs = given
            /\ \A i \in 2..Len(heap) :
                  /\ heap[i].name = name
                  /\ heap[i].kwargs =
                        [f \in (DOMAIN given) \ {"name"} |-> given[f]]


\* C30: every call of is_table(obj) returns a boolean, true exactly when obj
\* is an instance of the pyspark DataFrame; every call of supported_types()
\* returns a record whose table_types holds the pyspark DataFrame, the same
\* record on every call.
C30_IsTableIsTotal ==
    \A i \in 2..Len(heap) :
       heap[i].kind = "Outcome" =>
          /\ heap[i].exc = OK
          /\ heap[i].call.op = "is_table" =>
                /\ heap[i].val \in BOOLEAN
                /\ heap[i].val <=> (DataFrame \in heap[i].call.args.mro)
          /\ heap[i].call.op = "supported_types" =>
                /\ DataFrame \in Range(heap[i].val.table_types)
                /\ \A j \in 2..Len(heap) :
                      heap[j].call.op = "supported_types"
                         => (heap[j].exc = OK /\ heap[j].val = heap[i].val)

====
